---- MODULE Spec2Model ----
(***************************************************************************)
(* Model of message.go of rabbitmq-worker: HttpRequestMessage.Parse with   *)
(* getRetryInfo (a RabbitMQ delivery becomes a request descriptor) and     *)
(* HttpRequestMessage.HttpPost (one http POST whose outcome is sent on the *)
(* acknowledgement channel), run as concurrent goroutines.                 *)
(*                                                                         *)
(* Go strings are TLA+ strings. An error is its text, nil being "": every  *)
(* error the code stores has a text. An interface{} value is a record      *)
(* [kind, v]: kind is its dynamic type.                                    *)
(***************************************************************************)
EXTENDS Integers, Sequences, FiniteSets, TLC

\* ---------------------------------------------------------------- bounds
\* Largest unix second of the sampled times (timestamps, expirations, now).
MaxTime == 2
\* Largest "count" of a sampled x-death entry.
MaxCount == 2
\* Number of concurrent HttpPost invocations.
NumMsgs == 2
\* Capacity of the acknowledgement channel's buffer.
ChanCap == 1

VARIABLES
    \* Parse
    delivery,      \* the amqp.Delivery handed to Parse: [Body, Timestamp, Headers]
    now,           \* time.Now().Unix() as read by Parse
    parsed,        \* the receiver *msg of Parse
    parseResult,   \* "none" before the call, then "ok", "err" or "panic"
    logFile,       \* what Parse wrote to the log file
    \* HttpPost
    timeout,       \* the timeout every HttpPost is called with
    pc,            \* position of each invocation
    msg,           \* each invocation's own copy of the descriptor (value receiver)
    resp,          \* what client.Do returned to each invocation
    sends,         \* number of client.Do calls of each invocation
    pending,       \* the channel sends left on the path the invocation took
    ackCh,         \* buffer of the acknowledgement channel
    received       \* what the consumer of ackCh has received, in order

parseVars == <<delivery, now, parsed, parseResult, logFile>>
postVars == <<timeout, pc, msg, resp, sends, pending, ackCh, received>>
vars == <<delivery, now, parsed, parseResult, logFile,
          timeout, pc, msg, resp, sends, pending, ackCh, received>>

\* ------------------------------------------------------- values and times
Val(k, x) == [kind |-> k, v |-> x]
NilVal == Val("nil", 0)

\* Unix() of Go's zero time.Time is -62135596800; kept below every sampled
\* time and scaled to TLC's integers.
ZeroTimeUnix == -62135
ZeroTime == [sec |-> ZeroTimeUnix, nsec |-> 0]
IsZero(t) == t.sec = ZeroTimeUnix /\ t.nsec = 0
\* time.Time.Unix() drops the nanoseconds.
Unix(t) == t.sec

\* amqp.Table / Go map: a function on the keys present; nil is a map too,
\* told apart by the isNil flag (a lookup in a nil map finds nothing).
EmptyMap == [k \in {} |-> 0]
Has(m, k) == k \in DOMAIN m
Without(m, k) == [j \in (DOMAIN m) \ {k} |-> m[j]]
NilTable == [isNil |-> TRUE, tab |-> EmptyMap]
Table(m) == [isNil |-> FALSE, tab |-> m]

\* The zero values of amqp.Delivery and of HttpRequestMessage (lines 17-48).
NoDelivery == [Body |-> "", Timestamp |-> ZeroTime, Headers |-> NilTable]
ZeroMsg ==
    [Delivery |-> NoDelivery, MessageId |-> "", Url |-> "", Headers |-> EmptyMap, Body |-> "",
     Timestamp |-> 0, Expiration |-> 0, RetryCnt |-> 0, FirstRejectionTime |-> 0,
     HttpStatusMsg |-> "", HttpRespBody |-> "", HttpErr |-> "", Drop |-> FALSE]

\* ------------------------------------------------------------------ Parse
\* json.Unmarshal(rmqDelivery.Body, &fields) on the sampled raw bodies: a
\* body that is no JSON gives an error; a
\* field the JSON leaves out keeps its zero value.
NoFields == [err |-> TRUE, Url |-> "", Headers |-> << >>, Body |-> ""]
Fields(u, h, b) == [err |-> FALSE, Url |-> u, Headers |-> h, Body |-> b]
Unmarshal(raw) ==
    CASE raw = "{\"body\":\"payload\"}" -> Fields("", << >>, "payload")
      [] raw = "{\"url\":\"\"}" -> Fields("", << >>, "")
      [] raw = "{\"url\":\"http://x/y\"}" -> Fields("http://x/y", << >>, "")
      [] raw = "{\"url\":\"%zz\"}" -> Fields("%zz", << >>, "")
      [] raw = "{\"url\":\"http://x/y\",\"headers\":[{\"A\":\"1\"},{\"A\":\"2\",\"B\":\"3\"}],\"body\":\"payload\"}"
            -> Fields("http://x/y",
                      << [k \in {"A"} |-> "1"],
                         [k \in {"A", "B"} |-> IF k = "A" THEN "2" ELSE "3"] >>,
                      "payload")
      [] OTHER -> NoFields

\* Lines 67-70: the url check.
UrlMissingNoCheck(fields) == FALSE
UrlMissing(fields) == fields.Url = ""

\* Lines 74-79: the header maps are merged in order, a later one overwriting.
RECURSIVE FlattenHeaders(_, _)
FlattenHeaders(hs, acc) ==
    IF hs = << >> THEN acc
    ELSE FlattenHeaders(Tail(hs),
             [k \in (DOMAIN acc) \cup (DOMAIN Head(hs)) |->
                 IF k \in DOMAIN Head(hs) THEN Head(hs)[k] ELSE acc[k]])

\* Lines 95-103: whether the expiration header is rejected with a warning.
ExpirationRejectedAtNow(e, t) == e.kind # "int64" \/ e.v <= t
ExpirationRejected(e, t) == e.kind # "int64" \/ e.v < t
ExpirationAccepted(h, t) ==
    Has(h, "expiration") /\ ~ExpirationRejected(h["expiration"], t)
ExpirationLog(h, t) ==
    IF Has(h, "expiration") /\ ~ExpirationAccepted(h, t)
    THEN << "expiration invalid or past" >> ELSE << >>

\* Lines 106-114.
MessageIdRejected(x) == x.kind # "string" \/ x.v = ""
MessageIdHdr(h) ==
    IF Has(h, "message_id") /\ ~MessageIdRejected(h["message_id"])
    THEN h["message_id"].v ELSE ""
MessageIdLog(h) ==
    IF Has(h, "message_id") /\ MessageIdRejected(h["message_id"])
    THEN << "message_id invalid or empty" >> ELSE << >>

\* fmt.Sprintf("%x", md5.Sum(body)): 32 hex digits, taken as collision free.
Md5Hex(raw) == "md5(" \o raw \o ")"
\* Lines 116-121.
MessageIdOf(id, raw, ts) ==
    IF id = ""
    THEN Md5Hex(raw) \o (IF ts > 0 THEN "-" \o ToString(ts) ELSE "")
    ELSE id

\* Line 145: the main queue's history is the second entry.
MainQueueEntryFirst(q) == q[1]
MainQueueEntry(q) == q[2]

\* Lines 134-164. An unchecked type assertion on a value of another dynamic
\* type panics (a nil interface included).
getRetryInfo(h) ==
    LET ret(c, t) == [panic |-> FALSE, retryCnt |-> c, firstRejectionTime |-> t]
        panics == [panic |-> TRUE, retryCnt |-> 0, firstRejectionTime |-> 0]
    IN  IF ~Has(h, "x-death") THEN ret(0, 0)
        ELSE IF h["x-death"].kind # "list" THEN panics
        ELSE LET q == h["x-death"].v IN
             IF Len(q) # 2 THEN ret(0, 0)
             ELSE IF MainQueueEntry(q).kind # "table" THEN panics
             ELSE LET mq == MainQueueEntry(q).v
                      cntOk == Has(mq, "count")
                      timeOk == Has(mq, "time")
                  IN  IF cntOk /\ mq["count"].kind # "int64" THEN panics
                      ELSE IF timeOk /\ mq["time"].kind \notin {"nil", "time"} THEN panics
                      ELSE ret(IF cntOk THEN mq["count"].v ELSE 0,
                               IF timeOk /\ mq["time"].kind = "time"
                               THEN Unix(mq["time"].v) ELSE 0)

\* Lines 127-129.
DebugLog == << "debug: Message fields", "debug: Retry", "debug: First Rejection Time" >>

\* Lines 50-132: Parse on a receiver holding m0, reading the clock as t.
ParseOp(m0, d, t) ==
    LET fields == Unmarshal(d.Body)
        m1 == [m0 EXCEPT !.Delivery = d]
    IN  IF fields.err THEN [result |-> "err", msg |-> m1, log |-> << >>]
        ELSE IF UrlMissing(fields) THEN [result |-> "err", msg |-> m1, log |-> << >>]
        ELSE
          LET m2 == [m1 EXCEPT !.Url = fields.Url,
                               !.Headers = FlattenHeaders(fields.Headers, EmptyMap),
                               !.Body = fields.Body,
                               !.Timestamp = IF ~IsZero(d.Timestamp)
                                             THEN Unix(d.Timestamp) ELSE @]
          IN  IF d.Headers.isNil
              THEN [result |-> "ok", msg |-> m2, log |-> DebugLog]
              ELSE
                LET h == d.Headers.tab
                    m3 == [m2 EXCEPT !.Expiration =
                                IF ExpirationAccepted(h, t)
                                THEN h["expiration"].v ELSE @]
                    m4 == [m3 EXCEPT !.MessageId =
                                IF MessageIdHdr(h) # "" THEN MessageIdHdr(h) ELSE @]
                    m5 == [m4 EXCEPT !.MessageId =
                                MessageIdOf(@, d.Body, m4.Timestamp)]
                    ri == getRetryInfo(h)
                    warn == ExpirationLog(h, t) \o MessageIdLog(h)
                IN  IF ri.panic
                    THEN [result |-> "panic", msg |-> m5, log |-> warn]
                    ELSE [result |-> "ok",
                          msg |-> [m5 EXCEPT !.RetryCnt = ri.retryCnt,
                                             !.FirstRejectionTime = ri.firstRejectionTime],
                          log |-> warn \o DebugLog]

\* ------------------------------------------------- the sampled deliveries
Absent == Val("absent", 0)
RawBodies ==
    { "not json",
      "{\"body\":\"payload\"}",
      "{\"url\":\"\"}",
      "{\"url\":\"http://x/y\"}",
      "{\"url\":\"%zz\"}",
      "{\"url\":\"http://x/y\",\"headers\":[{\"A\":\"1\"},{\"A\":\"2\",\"B\":\"3\"}],\"body\":\"payload\"}" }
Timestamps ==
    { ZeroTime, [sec |-> -1, nsec |-> 0], [sec |-> 0, nsec |-> 1] }
      \cup { [sec |-> s, nsec |-> 0] : s \in 1..MaxTime }
DeathTimes == { [sec |-> s, nsec |-> 1] : s \in 1..MaxTime }
\* A table holding the keys whose option is not Absent.
MkTable(opt) == [k \in { j \in DOMAIN opt : opt[j] # Absent } |-> opt[k]]
ExpirationOpts ==
    { Absent, Val("string", "soon"), Val("int32", MaxTime + 1) }
      \cup { Val("int64", e) : e \in 0..(MaxTime + 1) }
MessageIdOpts == { Absent, Val("string", "id-1"), Val("string", ""), Val("int64", 7) }
CountOpts == { Absent, Val("string", "2") } \cup { Val("int64", c) : c \in 0..MaxCount }
TimeOpts == { Absent, NilVal, Val("string", "yesterday") }
              \cup { Val("time", t) : t \in DeathTimes }
DeathEntries ==
    { MkTable([k \in {"count", "time"} |-> IF k = "count" THEN c ELSE t]) :
        c \in CountOpts, t \in TimeOpts }
WaitQueueEntry ==
    Val("table", [k \in {"count", "time"} |->
                    IF k = "count" THEN Val("int64", 1)
                    ELSE Val("time", [sec |-> 1, nsec |-> 0])])
XDeathOpts ==
    { Absent, NilVal, Val("string", "x"), Val("list", << >>),
      Val("list", << WaitQueueEntry >>),
      Val("list", << WaitQueueEntry, WaitQueueEntry, WaitQueueEntry >>),
      Val("list", << WaitQueueEntry, Val("string", "queue") >>) }
      \cup { Val("list", << WaitQueueEntry, Val("table", e) >>) : e \in DeathEntries }
HeaderTables ==
    { NilTable } \cup
    { Table(MkTable([k \in {"expiration", "message_id", "x-death"} |->
                        CASE k = "expiration" -> e
                          [] k = "message_id" -> i
                          [] OTHER -> x])) :
        e \in ExpirationOpts, i \in MessageIdOpts, x \in XDeathOpts }
Deliveries ==
    [Body : RawBodies, Timestamp : Timestamps, Headers : HeaderTables]

\* ------------------------------------------------- state machine of Parse
InitParse ==
    /\ delivery \in Deliveries
    /\ now \in 1..MaxTime
    /\ parsed = ZeroMsg
    /\ parseResult = "none"
    /\ logFile = << >>
    \* no HttpPost is running
    /\ timeout = 0 /\ pc = << >> /\ msg = << >> /\ resp = << >> /\ sends = << >>
    /\ pending = << >> /\ ackCh = << >> /\ received = << >>

\* msg.Parse(rmqDelivery, logFile) on a fresh HttpRequestMessage.
Parse ==
    /\ parseResult = "none"
    /\ LET r == ParseOp(parsed, delivery, now)
       IN  /\ parsed' = r.msg
           /\ parseResult' = r.result
           /\ logFile' = logFile \o r.log
    /\ UNCHANGED <<delivery, now, postVars>>

\* --------------------------------------------------------------- HttpPost
Ids == 1..NumMsgs
\* The timeouts HttpPost is called with; http.Client takes a Timeout that is
\* not positive as no timeout at all.
Timeouts == {0, 30}

\* The descriptors handed to HttpPost are those Parse returns: message i has
\* message_id "id-i" and one of the bodies with a url.
PostBodies == { "{\"url\":\"http://x/y\"}", "{\"url\":\"%zz\"}" }
MsgIdOf(i) == "id-" \o ToString(i)
PostDelivery(i, raw) ==
    [Body |-> raw, Timestamp |-> ZeroTime,
     Headers |-> Table([k \in {"message_id"} |-> Val("string", MsgIdOf(i))])]
Descriptor(i, raw) == ParseOp(ZeroMsg, PostDelivery(i, raw), 0).msg

\* Line 167: http.NewRequest fails on a url that url.Parse rejects.
NewRequestErr(u) == IF u = "%zz" THEN "parse " \o u \o ": invalid URL escape" ELSE ""

\* What client.Do and the read of the body can give (lines 182, 190).
StatusCodes == {199, 200, 299, 300, 399, 400, 499, 500}
Status(code) == ToString(code) \o " status text"
NoResp == [err |-> "", code |-> 0, readOk |-> FALSE, body |-> ""]
TransportErrs(to) ==
    { [NoResp EXCEPT !.err = e] :
        e \in {"connection refused"} \cup (IF to > 0 THEN {"Client.Timeout exceeded"} ELSE {}) }
Responses(to) ==
    TransportErrs(to) \cup
    { [NoResp EXCEPT !.code = c, !.readOk = ok, !.body = IF ok THEN "response body" ELSE ""] :
        c \in StatusCodes, ok \in BOOLEAN }

\* Lines 168-174: the path taken when the request cannot be built, as the
\* sequence of messages it sends on ackCh.
OnNewRequestErr(m, err) ==
    << [m EXCEPT !.HttpErr = err,
                 !.HttpStatusMsg = "Invalid http request: " \o err,
                 !.Drop = TRUE] >>

\* Lines 184-188.
OnTransportErrDrop(m, err) ==
    << [m EXCEPT !.HttpErr = err,
                 !.HttpStatusMsg = "Error on http POST: " \o err,
                 !.Drop = TRUE] >>
OnTransportErr(m, err) ==
    << [m EXCEPT !.HttpErr = err,
                 !.HttpStatusMsg = "Error on http POST: " \o err] >>

\* Lines 190-200.
OnBodyReadErrRecorded(m, r) ==
    IF ~r.readOk
    THEN [m EXCEPT !.HttpErr = "read failed",
                   !.HttpRespBody = "Error encountered when reading POST response body"]
    ELSE [m EXCEPT !.HttpStatusMsg = Status(r.code), !.HttpRespBody = r.body]
OnBody(m, r) ==
    IF ~r.readOk
    THEN [m EXCEPT !.HttpRespBody = "Error encountered when reading POST response body"]
    ELSE [m EXCEPT !.HttpStatusMsg = Status(r.code), !.HttpRespBody = r.body]

\* Lines 203-217: the sends on ackCh of the path the status code selects.
ClassifyAbove400(m, code) ==
    IF code > 400 /\ code <= 499
    THEN << [m EXCEPT !.HttpErr = "4XX status on http POST (no retry): " \o Status(code),
                      !.Drop = TRUE] >>
    ELSE IF code >= 200 /\ code <= 299
    THEN << [m EXCEPT !.Drop = TRUE] >>
    ELSE << [m EXCEPT !.HttpErr = "Error on http POST: " \o Status(code)] >>
ClassifyNoReturn(m, code) ==
    IF code >= 400 /\ code <= 499
    THEN << [m EXCEPT !.HttpErr = "4XX status on http POST (no retry): " \o Status(code),
                      !.Drop = TRUE] >>
    ELSE IF code >= 200 /\ code <= 299
    THEN << [m EXCEPT !.Drop = TRUE],
            [m EXCEPT !.Drop = TRUE,
                      !.HttpErr = "Error on http POST: " \o Status(code)] >>
    ELSE << [m EXCEPT !.HttpErr = "Error on http POST: " \o Status(code)] >>
Classify(m, code) ==
    IF code >= 400 /\ code <= 499
    THEN << [m EXCEPT !.HttpErr = "4XX status on http POST (no retry): " \o Status(code),
                      !.Drop = TRUE] >>
    ELSE IF code >= 200 /\ code <= 299
    THEN << [m EXCEPT !.Drop = TRUE] >>
    ELSE << [m EXCEPT !.HttpErr = "Error on http POST: " \o Status(code)] >>

\* Lines 182-217: everything HttpPost does once client.Do has returned r.
AfterDo(m, r) ==
    IF r.err # "" THEN OnTransportErr(m, r.err)
    ELSE Classify(OnBody(m, r), r.code)

Init ==
    \* Parse is not running
    /\ delivery = NoDelivery /\ now = 0 /\ parsed = ZeroMsg
    /\ parseResult = "none" /\ logFile = << >>
    /\ timeout \in Timeouts
    /\ pc = [i \in Ids |-> "idle"]
    /\ msg = [i \in Ids |-> ZeroMsg]
    /\ resp = [i \in Ids |-> NoResp]
    /\ sends = [i \in Ids |-> 0]
    /\ pending = [i \in Ids |-> << >>]
    /\ ackCh = << >>
    /\ received = << >>

\* The caller starts goroutine i: go msg.HttpPost(ackCh, timeout), msg copied.
Launch(i) ==
    /\ pc[i] = "idle"
    /\ \E raw \in PostBodies : msg' = [msg EXCEPT ![i] = Descriptor(i, raw)]
    /\ pc' = [pc EXCEPT ![i] = "start"]
    /\ UNCHANGED <<timeout, resp, sends, pending, ackCh, received, parseVars>>

\* Lines 167-180: the request is built, or the failure path is taken.
NewRequest(i) ==
    /\ pc[i] = "start"
    /\ LET err == NewRequestErr(msg[i].Url)
       IN  IF err # ""
           THEN /\ pending' = [pending EXCEPT ![i] = OnNewRequestErr(msg[i], err)]
                /\ msg' = [msg EXCEPT ![i] = pending'[i][Len(pending'[i])]]
                /\ pc' = [pc EXCEPT ![i] = "push"]
           ELSE /\ pc' = [pc EXCEPT ![i] = "do"]
                /\ UNCHANGED <<msg, pending>>
    /\ UNCHANGED <<timeout, resp, sends, ackCh, received, parseVars>>

\* Lines 182-217: client.Do returns and the outcome is classified.
ClientDo(i) ==
    /\ pc[i] = "do"
    /\ \E r \in Responses(timeout) :
          /\ resp' = [resp EXCEPT ![i] = r]
          /\ pending' = [pending EXCEPT ![i] = AfterDo(msg[i], r)]
    /\ msg' = [msg EXCEPT ![i] = pending'[i][Len(pending'[i])]]
    /\ sends' = [sends EXCEPT ![i] = @ + 1]
    /\ pc' = [pc EXCEPT ![i] = "push"]
    /\ UNCHANGED <<timeout, ackCh, received, parseVars>>

SendNoBlock(i) ==
    /\ pc[i] = "push"
    /\ ackCh' = IF Len(ackCh) < ChanCap THEN Append(ackCh, Head(pending[i])) ELSE ackCh
    /\ pending' = [pending EXCEPT ![i] = Tail(@)]
    /\ pc' = [pc EXCEPT ![i] = IF Tail(pending[i]) = << >> THEN "done" ELSE "push"]
    /\ UNCHANGED <<timeout, msg, resp, sends, received, parseVars>>
\* ackCh <- msg: blocks while the buffer is full; HttpPost returns after the
\* only send of its path.
Send(i) ==
    /\ pc[i] = "push"
    /\ Len(ackCh) < ChanCap
    /\ ackCh' = Append(ackCh, Head(pending[i]))
    /\ pending' = [pending EXCEPT ![i] = Tail(@)]
    /\ pc' = [pc EXCEPT ![i] = IF Tail(pending[i]) = << >> THEN "done" ELSE "push"]
    /\ UNCHANGED <<timeout, msg, resp, sends, received, parseVars>>

\* The consumer of ackCh receives the oldest message.
Receive ==
    /\ ackCh # << >>
    /\ received' = Append(received, Head(ackCh))
    /\ ackCh' = Tail(ackCh)
    /\ UNCHANGED <<timeout, pc, msg, resp, sends, pending, parseVars>>

Next ==
    \/ \E i \in Ids : Launch(i)
    \/ \E i \in Ids : NewRequest(i)
    \/ \E i \in Ids : ClientDo(i)
    \/ \E i \in Ids : Send(i)
    \/ Receive
Spec == Init /\ [][Next]_vars

\* The goroutines and the consumer of ackCh keep running; client.Do is sure
\* to return only under a positive Timeout (line 176).
FairSpec ==
    /\ Spec
    /\ \A i \in Ids : WF_vars(NewRequest(i)) /\ WF_vars(Send(i))
    /\ \A i \in Ids : WF_vars(timeout > 0 /\ ClientDo(i))
    /\ WF_vars(Receive)

NextParse == Parse
SpecParse == InitParse /\ [][NextParse]_vars

\* --------------------------------------------------- properties of Parse
\* What the delivery holds, read off the input alone.
UrlBodies == { b \in RawBodies : b \notin { "not json", "{\"body\":\"payload\"}", "{\"url\":\"\"}" } }
Attr(k) == IF ~delivery.Headers.isNil /\ k \in DOMAIN delivery.Headers.tab
           THEN delivery.Headers.tab[k] ELSE Absent
Finished == parseResult # "none"
NotPopulated ==
    /\ parsed.Url = "" /\ parsed.Headers = EmptyMap /\ parsed.Body = ""
    /\ parsed.MessageId = "" /\ parsed.Timestamp = 0 /\ parsed.Expiration = 0
    /\ parsed.RetryCnt = 0 /\ parsed.FirstRejectionTime = 0
TwoEntries == Attr("x-death").kind = "list" /\ Len(Attr("x-death").v) = 2
SecondIsTable == TwoEntries /\ Attr("x-death").v[2].kind = "table"
Second == Attr("x-death").v[2].v
CountIs(k) == SecondIsTable /\ "count" \in DOMAIN Second /\ Second["count"].kind = k
TimeIs(k) == SecondIsTable /\ "time" \in DOMAIN Second /\ Second["time"].kind = k
NoTime == SecondIsTable /\ "time" \notin DOMAIN Second

\* C3: after a successful Parse of a delivery with a url, MessageId is not
\* empty: the message_id header when that is a non-empty string, otherwise
\* the md5 of the raw body with "-<Timestamp>" appended when the timestamp is
\* not zero, whether the header table is nil, empty or filled.
C3_MessageIdNeverEmpty ==
    parseResult = "ok" =>
        /\ parsed.MessageId # ""
        /\ parsed.MessageId =
              IF Attr("message_id").kind = "string" /\ Attr("message_id").v # ""
              THEN Attr("message_id").v
              ELSE Md5Hex(delivery.Body)
                     \o (IF parsed.Timestamp # 0 THEN "-" \o ToString(parsed.Timestamp) ELSE "")

MalformedHistory ==
    \/ Attr("x-death").kind # "list"
    \/ Attr("x-death").kind = "list" /\ ~TwoEntries
    \/ TwoEntries /\ ~SecondIsTable
    \/ SecondIsTable /\ "count" \in DOMAIN Second /\ ~CountIs("int64")
    \/ SecondIsTable /\ "time" \in DOMAIN Second /\ ~TimeIs("time") /\ ~TimeIs("nil")
\* C4: an x-death header of any shape other than a two-entry list with a
\* well-typed second entry (missing, another length, no list, second entry no
\* table, count no integer, time no timestamp) lets Parse return normally with
\* RetryCnt = 0 and FirstRejectionTime = 0, never an error or a panic; a
\* second entry {count: c, time: T} gives RetryCnt = c, FirstRejectionTime = T.
C4_MalformedHistoryIsFailSafe ==
    (Finished /\ delivery.Body \in UrlBodies) =>
        /\ MalformedHistory =>
              parseResult = "ok" /\ parsed.RetryCnt = 0 /\ parsed.FirstRejectionTime = 0
        /\ (CountIs("int64") /\ TimeIs("time")) =>
              /\ parseResult = "ok"
              /\ parsed.RetryCnt = Second["count"].v
              /\ parsed.FirstRejectionTime = Second["time"].v.sec

\* C5 as stated: after a successful Parse the two retry fields are both read
\* from a second entry that holds a count and a time, or both 0.
C5_BothOrNeither ==
    parseResult = "ok" =>
        \/ /\ CountIs("int64") /\ TimeIs("time")
           /\ parsed.RetryCnt = Second["count"].v
           /\ parsed.FirstRejectionTime = Second["time"].v.sec
        \/ parsed.RetryCnt = 0 /\ parsed.FirstRejectionTime = 0

\* C5 as amended: after a successful Parse both retry fields are 0 unless
\* x-death is a list of two entries; then each field is read on its own from
\* the second entry: RetryCnt is its count when present, else 0, and
\* FirstRejectionTime is its time in unix seconds when present and not nil,
\* else 0.
C5_EachFieldFromItsOwnKey ==
    parseResult = "ok" =>
        /\ parsed.RetryCnt = IF CountIs("int64") THEN Second["count"].v ELSE 0
        /\ parsed.FirstRejectionTime = IF TimeIs("time") THEN Second["time"].v.sec ELSE 0
C5_Witness ==
    /\ parseResult = "ok" /\ CountIs("int64") /\ NoTime
    /\ parsed.RetryCnt = MaxCount /\ parsed.FirstRejectionTime = 0

\* C8: Parse returns an error whenever the body cannot be decoded or holds no
\* url, and then none of Url, Headers, Body, MessageId, Timestamp, Expiration
\* and the retry fields is set from the delivery; when Parse returns without
\* error, Url is not empty.
C8_ParseErrorLeavesNoDescriptor ==
    Finished =>
        /\ delivery.Body \notin UrlBodies => parseResult = "err"
        /\ parseResult = "err" => delivery.Body \notin UrlBodies /\ NotPopulated
        /\ parseResult = "ok" => parsed.Url # ""
C8_Witness ==
    /\ parseResult = "err" /\ delivery.Body = "{\"body\":\"payload\"}"
    /\ ~IsZero(delivery.Timestamp) /\ Attr("message_id") = Val("string", "id-1")
    /\ NotPopulated

ExpirationUsable ==
    Attr("expiration").kind = "int64" /\ Attr("expiration").v >= now
WithoutExpiration ==
    [delivery EXCEPT !.Headers.tab = Without(@, "expiration")]
\* C10: after a successful Parse, Expiration is the expiration header exactly
\* when the header is present, an int64 and not earlier than the clock read
\* by Parse, and 0 otherwise; a header that is rejected only adds a warning to
\* the log: Parse ends as it does without the header, with the same fields.
C10_ExpirationValidOrZero ==
    /\ parseResult = "ok" =>
          parsed.Expiration = IF ExpirationUsable THEN Attr("expiration").v ELSE 0
    /\ (Finished /\ Attr("expiration") # Absent /\ ~ExpirationUsable) =>
          LET r == ParseOp(ZeroMsg, WithoutExpiration, now)
          IN  /\ parseResult = r.result
              /\ parsed = [r.msg EXCEPT !.Delivery = delivery]
              /\ delivery.Body \in UrlBodies =>
                    /\ Len(logFile) = Len(r.log) + 1
                    /\ Head(logFile) = "expiration invalid or past"
C10_Witness ==
    /\ parseResult = "ok" /\ Attr("expiration").kind = "int64"
    /\ Attr("expiration").v < now /\ parsed.Expiration = 0
    /\ parsed.MessageId = "id-1" /\ parsed.RetryCnt = MaxCount

\* ------------------------------------------------- properties of HttpPost
\* What has reached the sink: received by the consumer or still buffered.
Sink == received \o ackCh
SinkSet == { Sink[k] : k \in 1..Len(Sink) }
Pushed(i) == Cardinality({ k \in 1..Len(Sink) : Sink[k].MessageId = MsgIdOf(i) })
Owner(m) == CHOOSE i \in Ids : m.MessageId = MsgIdOf(i)
GotResponse(i) == sends[i] = 1 /\ resp[i].err = ""
Is4xx(c) == c \in 400..499
Is2xx(c) == c \in 200..299
AllDone == ackCh = << >> /\ \A i \in Ids : pc[i] = "done"

OneOutcome ==
    \A i \in Ids :
        /\ sends[i] <= 1
        /\ Pushed(i) = IF pc[i] = "done" THEN 1 ELSE 0
        /\ pc[i] = "done" => pending[i] = << >>
        /\ pc[i] \in {"idle", "start", "do"} => pending[i] = << >>
Ended(i) == pc[i] = "done" /\ Pushed(i) = 1
NotStarted(i) == pc[i] = "idle"
\* An invocation never leaves "done" and never returns to "idle", so "every
\* started invocation eventually ends" says that from some point on every
\* invocation is not started or has ended.

NoDeadline(i) == pc[i] = "do" /\ timeout <= 0
C2_StatusDecidesOutcome ==
    \A m \in SinkSet :
        /\ ~(m.Drop = FALSE /\ m.HttpErr = "")
        /\ GotResponse(Owner(m)) =>
              LET c == resp[Owner(m)].code
              IN  /\ Is4xx(c) => m.Drop /\ m.HttpErr # ""
                  /\ Is2xx(c) => m.Drop /\ m.HttpErr = ""
                  /\ ~Is4xx(c) /\ ~Is2xx(c) => ~m.Drop /\ m.HttpErr # ""
C2_Witness ==
    \E k \in 1..Len(received) :
        /\ GotResponse(Owner(received[k])) /\ resp[Owner(received[k])].code = 400
        /\ received[k].Drop /\ received[k].HttpErr # ""

\* C6: with NumMsgs HttpPost goroutines sharing ackCh, under every
\* interleaving no message is sent twice or lost, the consumer ends with
\* exactly one message per descriptor, and each message carries the
\* MessageId, Url and outcome of its own invocation; the order of arrival is
\* free.
C6_OneRecordPerInvocation ==
    /\ \A i \in Ids : Pushed(i) <= 1 /\ (pc[i] = "done" => Pushed(i) = 1)
    /\ AllDone => Len(received) = NumMsgs
    /\ \A m \in SinkSet :
          LET i == Owner(m)
          IN  /\ m = msg[i]
              /\ m.Url = Unmarshal(m.Delivery.Body).Url
              /\ m.Delivery = PostDelivery(i, m.Delivery.Body)
              /\ sends[i] = 1 /\ resp[i].err # "" => m.HttpErr = resp[i].err
              /\ GotResponse(i) /\ resp[i].readOk =>
                    m.HttpStatusMsg = Status(resp[i].code)
              /\ GotResponse(i) => (m.HttpErr = "" <=> Is2xx(resp[i].code))
C6_Witness ==
    /\ AllDone /\ Len(received) = NumMsgs
    /\ received[1].MessageId = MsgIdOf(NumMsgs)
    /\ \E i, j \in Ids : i # j /\ GotResponse(i) /\ GotResponse(j)
                            /\ resp[i].code # resp[j].code

\* C7: an HttpPost that ends without a response: when the request cannot be
\* built, Drop = true, HttpErr is the construction error and client.Do is
\* never called; when client.Do fails, Drop = false, HttpErr is that error
\* and no response body is kept. HttpErr is set in both cases.
C7_NoResponseOutcome ==
    /\ \A i \in Ids :
          (~NotStarted(i) /\ NewRequestErr(msg[i].Url) # "") => sends[i] = 0
    /\ \A m \in SinkSet :
          LET i == Owner(m)
          IN  /\ sends[i] = 0 =>
                    /\ m.Drop /\ m.HttpErr # ""
                    /\ m.HttpErr = NewRequestErr(m.Url)
                    /\ m.HttpRespBody = ""
              /\ sends[i] = 1 /\ resp[i].err # "" =>
                    /\ ~m.Drop /\ m.HttpErr # ""
                    /\ m.HttpErr = resp[i].err
                    /\ m.HttpRespBody = ""
C7_Witness ==
    /\ \E k \in 1..Len(received) :
           sends[Owner(received[k])] = 0 /\ received[k].Drop
    /\ \E k \in 1..Len(received) :
           /\ resp[Owner(received[k])].err = "Client.Timeout exceeded"
           /\ ~received[k].Drop

ReadFailed(i) == GotResponse(i) /\ ~resp[i].readOk
Readable(r) == [r EXCEPT !.readOk = TRUE, !.body = "response body"]
\* C9: when the response arrives but reading its body fails, HttpPost still
\* sends exactly one message, whose Drop and HttpErr are those of the same
\* status code with a readable body and whose HttpRespBody is the fixed
\* text; the read failure is never the HttpErr.
C9_ReadFailureKeepsOutcome ==
    /\ \A i \in Ids : (ReadFailed(i) /\ pc[i] = "done") => Pushed(i) = 1
    /\ \A m \in SinkSet :
          LET i == Owner(m)
              good == AfterDo(Descriptor(i, m.Delivery.Body), Readable(resp[i]))
          IN  ReadFailed(i) =>
                /\ m.HttpRespBody = "Error encountered when reading POST response body"
                /\ Len(good) = 1
                /\ m.Drop = good[1].Drop
                /\ m.HttpErr = good[1].HttpErr
                /\ m.Drop <=> (Is2xx(resp[i].code) \/ Is4xx(resp[i].code))
                /\ m.HttpErr = "" <=> Is2xx(resp[i].code)
C9_Witness ==
    \E k \in 1..Len(received) :
        /\ ReadFailed(Owner(received[k])) /\ resp[Owner(received[k])].code = 200
        /\ received[k].Drop /\ received[k].HttpErr = ""
        /\ received[k].HttpRespBody # ""
====
